---- MODULE Spec2Model ----
(***************************************************************************)
(* Model of the pseudocode editor front end: the API boundary              *)
(* (src/src/api/pseudocodeApi.ts, validatePseudocode / executePseudocode)  *)
(* and the App component (src/unnamed/part_001, lines 1-828): the editor   *)
(* code, the document list, the localStorage autosave entry, the terminal  *)
(* output, the Run flow (handleRun), saving and selecting documents        *)
(* (handleSaveDocument, handleSelectDocument), loading, deleting and       *)
(* renaming documents, the online/offline state                            *)
(* and the Monarch tokenizer of the editor language.                       *)
(*                                                                         *)
(* JavaScript strings are TLA+ strings; template literals are \o and       *)
(* ToString.  A React event handler runs to its first await in one step;   *)
(* the continuation after the await runs in one later step.                *)
(***************************************************************************)
EXTENDS Integers, Sequences, FiniteSets, TLC

VARIABLES
    code,               \* useState('') : the editor text
    documents,          \* useState<EditorDocument[]>([])
    selectedDocumentId, \* useState<string>('')
    output,             \* useState<string[]>([]) : the terminal lines
    isRunning,          \* useState(false)
    toastMessage,       \* useState<string | null>(null)
    autosave,           \* localStorage entry 'pseudocode-autosave'
    autoSaveTimer,      \* autoSaveTimeoutRef: the pending 2000 ms timer and its closure
    validateCalls,      \* validatePseudocode requests of handleRun that have not settled
    executeCalls,       \* every executePseudocode request issued by the App
    lastRun,            \* history: the last handleRun that finished
    isOnline,           \* useState(true)
    saveState,          \* useState<SaveState>('idle')
    saveCalls,          \* create / update requests of handleSaveDocument that have not settled
    selectCalls,        \* getPseudocodeDocumentById requests of handleSelectDocument, same
    saveStateTimer,     \* saveStateTimeoutRef: the 1300 ms timer of setSavedIndicator is pending
    untouchedSinceSave, \* history: a save succeeded and the user has not edited or selected since
    isLoadingDocuments, \* useState(false); true while loadDocuments awaits the list
    documentsLoadError, \* useState<string | null>(null)
    deleteCalls,        \* deletePseudocodeDocument requests of handleDeleteDocument in flight
    renamingDocumentId, \* useState<string | null>(null): Null or [id |-> the document renamed]
    renameValue,        \* useState('')
    renameCalls,        \* updatePseudocodeDocument requests of commitRenameDocument in flight
    lexSource,          \* tokenizer: the lines given to the Monarch tokenizer
    lexTokens,          \* tokenizer: Null, or [lines |-> the tokens it produced, line by line]
    apiCall,            \* API boundary: the function under call
    apiOutcome,         \* API boundary: what the HTTP exchange does
    apiPromise          \* API boundary: the promise the function returned

docVars == <<isOnline, saveState, saveStateTimer, saveCalls, selectCalls, untouchedSinceSave>>
appVars == <<code, documents, selectedDocumentId, output, isRunning, toastMessage,
             autosave, autoSaveTimer, validateCalls, executeCalls, lastRun,
             isOnline, saveState, saveStateTimer, saveCalls, selectCalls,
             untouchedSinceSave, isLoadingDocuments, documentsLoadError, deleteCalls,
             renamingDocumentId, renameValue, renameCalls>>
listVars == <<isLoadingDocuments, documentsLoadError, deleteCalls,
              renamingDocumentId, renameValue, renameCalls>>
apiVars == <<apiCall, apiOutcome, apiPromise>>
lexVars == <<lexSource, lexTokens>>
vars == <<code, documents, selectedDocumentId, output, isRunning, toastMessage,
          autosave, autoSaveTimer, validateCalls, executeCalls, lastRun,
          isOnline, saveState, saveStateTimer, saveCalls, selectCalls, untouchedSinceSave,
          isLoadingDocuments, documentsLoadError, deleteCalls,
          renamingDocumentId, renameValue, renameCalls,
          lexSource, lexTokens, apiCall, apiOutcome, apiPromise>>

(***************************************************************************)
(* Bounds of the model.                                                    *)
(***************************************************************************)
\* longest errors / warnings list of a generated validation response
MaxDiagnostics == 2
\* most documents created with "+ New Document"
MaxDocuments == 2

\* JavaScript null / undefined, where the other values are records
Null == [null |-> TRUE]

(***************************************************************************)
(* JavaScript helpers.                                                     *)
(***************************************************************************)
\* String.prototype.includes
Includes(line, sub) ==
    \E i \in 1..(Len(line) - Len(sub) + 1) : SubSeq(line, i, i + Len(sub) - 1) = sub

\* String.prototype.startsWith
StartsWith(line, prefix) ==
    Len(line) >= Len(prefix) /\ SubSeq(line, 1, Len(prefix)) = prefix

\* the sequences over S of length at most n
RECURSIVE SeqsUpTo(_, _)
SeqsUpTo(S, n) ==
    IF n = 0 THEN {<<>>}
    ELSE LET shorter == SeqsUpTo(S, n - 1)
         IN  shorter \cup {Append(s, x) : s \in {t \in shorter : Len(t) = n - 1}, x \in S}

\* a thrown value: an Error object with its message, or some other value
Error(msg) == [isError |-> TRUE, message |-> msg]
NotAnError == [isError |-> FALSE, message |-> ""]

\* error instanceof Error ? error.message : fallback
ErrorMessage(thrown, fallback) ==
    IF thrown.isError THEN thrown.message ELSE fallback

\* completion of a block of statements
Return(v) == [type |-> "return", value |-> v]
Throw(v) == [type |-> "throw", value |-> v]

\* a settled promise
Fulfilled(v) == [state |-> "fulfilled", value |-> v]
Rejected(v) == [state |-> "rejected", value |-> v]

(***************************************************************************)
(* The HTTP exchange of one fetch: the fetch promise rejects, or a         *)
(* response arrives with a status and a body that parses as JSON or not.   *)
(***************************************************************************)
FetchRejects(thrown) ==
    [kind |-> "reject", thrown |-> thrown]
Response(status, data) ==
    [kind |-> "response", status |-> status, parses |-> TRUE, data |-> data]
UnparsableResponse(status) ==
    [kind |-> "response", status |-> status, parses |-> FALSE, data |-> Null]

\* Response.ok
ResponseOk(http) == http.status \in 200..299

\* the SyntaxError response.json() rejects with
JsonSyntaxError == Error("Unexpected token '<', \"<!DOCTYPE \"... is not valid JSON")

\* the try block shared by executePseudocode and validatePseudocode:
\* await fetch; if (!response.ok) throw; return await response.json()
FetchJson(http) ==
    IF http.kind = "reject" THEN Throw(http.thrown)
    ELSE IF ~ResponseOk(http)
         THEN Throw(Error("HTTP error! status: " \o ToString(http.status)))
    ELSE IF ~http.parses THEN Throw(JsonSyntaxError)
    ELSE Return(http.data)

\* the value validatePseudocode's catch block returns
ConnectionErrorResult(thrown) ==
    [shape |-> "validation",
     isValid |-> FALSE,
     errors |-> << [lineNumber |-> 0,
                    message |-> ErrorMessage(thrown, "Failed to connect to backend"),
                    code |-> "CONNECTION_ERROR"] >>,
     warnings |-> <<>>]

\* the value executePseudocode's catch block returns
ExecuteErrorResult(thrown) ==
    [shape |-> "execute",
     success |-> FALSE,
     error |-> ErrorMessage(thrown, "Failed to connect to backend")]

\* validatePseudocode as it would be with `return response.json()` not awaited:
\* the rejection of the body parse leaves the try block uncaught
validatePseudocodeUnawaitedJson(http) ==
    LET body == FetchJson(http)
    IN  IF body.type = "return" THEN Fulfilled(body.value)
        ELSE IF http.kind = "response" /\ ResponseOk(http) THEN Rejected(body.value)
        ELSE Fulfilled(ConnectionErrorResult(body.value))

validatePseudocode(http) ==
    LET body == FetchJson(http)
    IN  IF body.type = "throw"
        THEN Fulfilled(ConnectionErrorResult(body.value))
        ELSE Fulfilled(body.value)

executePseudocode(http) ==
    LET body == FetchJson(http)
    IN  IF body.type = "throw"
        THEN Fulfilled(ExecuteErrorResult(body.value))
        ELSE Fulfilled(body.value)

(***************************************************************************)
(* JSON bodies.  A parsed body is an object of the ValidationResponse      *)
(* shape, or one of two bodies of another shape: JSON null and {}.         *)
(***************************************************************************)
NullBody == [shape |-> "null"]
EmptyObjectBody == [shape |-> "empty"]
ValidationBody(isValid, errors, warnings) ==
    [shape |-> "validation", isValid |-> isValid, errors |-> errors, warnings |-> warnings]
ExecuteBody(success, text) ==
    [shape |-> "execute", success |-> success, output |-> text]

Diagnostic(lineNumber, message, diagnosticCode) ==
    [lineNumber |-> lineNumber, message |-> message, code |-> diagnosticCode]

\* ValidationError values a backend may send
SampleErrors ==
    { Diagnostic(3, "Line 3: Variable 'count' used before declaration", "UNDECLARED_VARIABLE"),
      Diagnostic(1, "Variable 'x' used before declaration", "UNDECLARED_VARIABLE"),
      Diagnostic(2, "Line 2: Syntax Error - Expected 'THEN' after IF condition", "SYNTAX_ERROR") }

\* ValidationWarning values a backend may send
SampleWarnings ==
    { Diagnostic(1, "Variable 'n' is never used", "UNUSED_VARIABLE"),
      Diagnostic(4, "Unreachable code after RETURN", "UNREACHABLE_CODE") }

\* the ValidationResponse bodies within the bounds
ValidationBodies ==
    { ValidationBody(v, e, w) : v \in BOOLEAN,
                                e \in SeqsUpTo(SampleErrors, MaxDiagnostics),
                                w \in SeqsUpTo(SampleWarnings, MaxDiagnostics) }

\* ExecuteResponse bodies a backend may send
ExecuteBodies ==
    { ExecuteBody(TRUE, "2.5"), ExecuteBody(TRUE, ""),
      [shape |-> "execute", success |-> FALSE,
       error |-> "Line 1: Runtime Error - Division by zero", line |-> 1] }

(***************************************************************************)
(* handleRun (part_001 lines 592-639).  The component state the handler    *)
(* writes is threaded through its statements as a record                   *)
(* [output, isRunning, toastMessage].                                      *)
(***************************************************************************)
\* setOutput(lines) as it would be with a functional update that appends
SetOutputAppending(previous, lines) == previous \o lines

\* setOutput(lines): the new state replaces the previous one
SetOutput(previous, lines) == lines

\* showToast(message); its 2200 ms timer is the action ToastTimeout
showToast(st, message) == [st EXCEPT !.toastMessage = [message |-> message]]

\* `Line ${d.lineNumber}: ${d.message}`
DiagnosticLine(d) == "Line " \o ToString(d.lineNumber) \o ": " \o d.message

\* forEach(d => lines.push(`Line ...`)) over a list of diagnostics
DiagnosticLines(ds) == [i \in 1..Len(ds) |-> DiagnosticLine(ds[i])]

\* the error listing as it would be if it stopped after the first error
ValidationFailedLinesFirstOnly(result) ==
    <<"> Validation Failed:", "">>
        \o DiagnosticLines(SubSeq(result.errors, 1, IF Len(result.errors) > 0 THEN 1 ELSE 0))
        \o (IF Len(result.warnings) > 0
            THEN <<"", "> Warnings:">> \o DiagnosticLines(result.warnings)
            ELSE <<>>)

\* lines 601-612: errorMessages of the !isValid branch
ValidationFailedLines(result) ==
    <<"> Validation Failed:", "">>
        \o DiagnosticLines(result.errors)
        \o (IF Len(result.warnings) > 0
            THEN <<"", "> Warnings:">> \o DiagnosticLines(result.warnings)
            ELSE <<>>)

\* lines 620-628: the lines shown when validation passed
ValidationPassedLines(result) ==
    IF Len(result.warnings) > 0
    THEN <<"> Validation passed with warnings:", "">> \o DiagnosticLines(result.warnings)
    ELSE <<"> Validation passed", "> No errors found">>

\* the TypeError a property read on a body of another shape raises (V8's wording)
TypeErrorOnNull == Error("Cannot read properties of null (reading 'isValid')")
TypeErrorOnUndefined == Error("Cannot read properties of undefined (reading 'forEach')")

\* lines 596-628: the try block from the await on; a completion carrying the state
handleRunTry(promise, st) ==
    IF promise.state = "rejected"
    THEN [type |-> "throw", value |-> promise.value, st |-> st]
    ELSE LET validationResult == promise.value
         IN  IF validationResult.shape = "null"
             THEN [type |-> "throw", value |-> TypeErrorOnNull, st |-> st]
             ELSE IF validationResult.shape # "validation"
             THEN [type |-> "throw", value |-> TypeErrorOnUndefined, st |-> st]
             ELSE IF ~validationResult.isValid
             THEN [type |-> "return", value |-> Null,
                   st |-> [st EXCEPT
                             !.output = SetOutput(st.output, ValidationFailedLines(validationResult)),
                             !.isRunning = FALSE]]
             ELSE [type |-> "normal", value |-> Null,
                   st |-> [st EXCEPT
                             !.output = SetOutput(st.output, ValidationPassedLines(validationResult))]]

\* lines 629-635: the catch block
handleRunCatch(thrown, st) ==
    LET errorMessage == ErrorMessage(thrown, "Failed to validate code")
        toasted == showToast(st, "Validation failed: " \o errorMessage)
    IN  [toasted EXCEPT !.output = SetOutput(st.output, <<"> Error:", errorMessage>>)]

\* a handler whose finally block were missing
handleRunFinallyMissing(st) == st

\* lines 636-638: the finally block
handleRunFinally(st) == [st EXCEPT !.isRunning = FALSE]

\* lines 598-638: everything handleRun does once the validation promise settled
handleRunSettled(promise, st) ==
    LET try == handleRunTry(promise, st)
    IN  handleRunFinally(IF try.type = "throw" THEN handleRunCatch(try.value, try.st)
                         ELSE try.st)

\* a handler that went on to execute whatever the validation said
handleRunExecuteCallsAlways(promise, content) == <<content>>

\* the executePseudocode calls handleRun makes for a settled validation: the
\* handler holds no such call on any path, and the component does not import it
handleRunExecuteCalls(promise, content) == <<>>

\* line 810: the className of one terminal line
TerminalLineClass(line) ==
    IF Includes(line, "Error") \/ Includes(line, "error")
    THEN "terminal-line error"
    ELSE "terminal-line"

(***************************************************************************)
(* The backend behind /api/pseudocode/validate is not part of this         *)
(* repository.  Its Validate is a function of the source text alone; the   *)
(* programs below and their diagnostics follow the specification's         *)
(* examples and message shapes.                                            *)
(***************************************************************************)
ValidProgram == "OUTPUT 10 / 4"
WarningProgram == "DECLARE n : INTEGER\nOUTPUT 1"
UndeclaredProgram == "OUTPUT x"
TwoErrorsProgram == "DECLARE n : INTEGER\nOUTPUT x\nOUTPUT y"

\* the specification's non-terminating program; it declares and uses nothing
InfiniteLoopProgram == "WHILE TRUE\nOUTPUT 1\nENDWHILE"

\* the configured maximum number of collected output events
MaxOutputEvents == 2

\* the texts the user types into the editor
Programs == {ValidProgram, WarningProgram, UndeclaredProgram, TwoErrorsProgram}

UnusedVariableWarning ==
    Diagnostic(1, "Line 1: Variable 'n' is never used", "UNUSED_VARIABLE")

UndeclaredVariableError(lineNumber, name) ==
    Diagnostic(lineNumber,
               "Line " \o ToString(lineNumber) \o ": Variable '" \o name
                   \o "' used before declaration",
               "UNDECLARED_VARIABLE")

Validate(sourceText) ==
    IF sourceText = UndeclaredProgram
    THEN ValidationBody(FALSE, <<UndeclaredVariableError(1, "x")>>, <<>>)
    ELSE IF sourceText = TwoErrorsProgram
    THEN ValidationBody(FALSE,
                        <<UndeclaredVariableError(2, "x"), UndeclaredVariableError(3, "y")>>,
                        <<UnusedVariableWarning>>)
    ELSE IF sourceText = WarningProgram
    THEN ValidationBody(TRUE, <<>>, <<UnusedVariableWarning>>)
    ELSE ValidationBody(TRUE, <<>>, <<>>)

\* what the HTTP exchange of a validation request for `content` may do
HttpOutcomes(content) ==
    { FetchRejects(Error("Failed to fetch")),
      UnparsableResponse(500),
      UnparsableResponse(200),
      Response(200, NullBody),
      Response(200, Validate(content)) }

(***************************************************************************)
(* The App component.  Of EditorDocument the model keeps id, title,        *)
(* content and isLocal.                                                    *)
(***************************************************************************)
DocumentIds == { documents[i].id : i \in 1..Len(documents) }

\* line 225: documents.find(d => d.id === selectedDocumentId) ?? null
selectedDocument ==
    IF selectedDocumentId \in DocumentIds
    THEN documents[CHOOSE i \in 1..Len(documents) : documents[i].id = selectedDocumentId]
    ELSE Null

\* line 226
hasUnsavedChanges ==
    selectedDocument # Null /\ code # selectedDocument.content

\* the document ids held by the closures of the requests in flight
IdsInFlight ==
    {selectCalls[i].documentId : i \in 1..Len(selectCalls)}
        \cup {saveCalls[i].selectedDocument.id :
                  i \in {j \in 1..Len(saveCalls) : saveCalls[j].selectedDocument # Null}}
        \cup {deleteCalls[i].documentId : i \in 1..Len(deleteCalls)}
        \cup UNION {{deleteCalls[i].documents[k].id : k \in 1..Len(deleteCalls[i].documents)} :
                       i \in 1..Len(deleteCalls)}
        \cup {renameCalls[i].documentId : i \in 1..Len(renameCalls)}

\* lines 27-33, createDocumentId(): `local-${crypto.randomUUID()}`, an id no
\* document has or had; the model names it local-n, n the first number from
\* Len(documents) + 1 on whose id is neither in use nor held by a closure
createDocumentId ==
    LET seen == DocumentIds \cup {selectedDocumentId} \cup IdsInFlight
        first == Len(documents) + 1
        n == CHOOSE k \in first..(first + Cardinality(seen)) :
                 /\ "local-" \o ToString(k) \notin seen
                 /\ \A j \in first..(k - 1) : "local-" \o ToString(j) \in seen
    IN  "local-" \o ToString(n)

\* line 201: the delay of the autosave timer, 2000 ms, in seconds
AutoSaveSeconds == 2

\* an effect that leaves a pending timer alone instead of restarting it
AutoSaveEffectThrottled(documentId, content, timer) ==
    IF documentId = "" \/ content = "" \/ timer # Null
    THEN timer
    ELSE [documentId |-> documentId, content |-> content, remaining |-> AutoSaveSeconds]

\* lines 169-202, the effect on [selectedDocumentId, code]: the timer it leaves,
\* with its closure and the time it has to go
AutoSaveEffect(documentId, content, timer) ==
    IF documentId = "" \/ content = ""
    THEN timer
    ELSE [documentId |-> documentId, content |-> content, remaining |-> AutoSaveSeconds]

\* lines 179-185: dataToSave, without its timestamp
AutoSaveEntry(timer) ==
    [documentId |-> timer.documentId, content |-> timer.content]

(***************************************************************************)
(* History kept for the properties: each validation request in flight      *)
(* and the last finished run note whether the editor text changed since    *)
(* the click on Run; a finished run notes what the HTTP exchange did and   *)
(* what handleRun showed.                                                  *)
(***************************************************************************)
\* a 2xx response whose body is a validation result
Delivered(http) ==
    http.kind = "response" /\ http.status \in 200..299 /\ http.parses
        /\ http.data.shape = "validation"

\* the in-flight requests and the last run, after the editor text changed or not
NoteCodeChange(calls, changed) ==
    [i \in 1..Len(calls) |-> [calls[i] EXCEPT !.codeChanged = @ \/ changed]]
NoteCodeChangeInRun(run, changed) ==
    IF run = Null THEN Null ELSE [run EXCEPT !.codeChanged = @ \/ changed]

\* the record of a run that finished: `call` is its request, `shown` its lines
FinishedRun(call, http, promise, shown, previous) ==
    [content |-> call.content,
     http |-> http,
     validation |-> promise,
     output |-> shown,
     codeChanged |-> call.codeChanged,
     repeatOfDelivered |-> /\ previous # Null
                           /\ previous.content = call.content
                           /\ ~previous.codeChanged
                           /\ Delivered(previous.http)
                           /\ Delivered(http)]

\* a Run button that stayed enabled during the run
RunButtonNeverDisabled == FALSE

\* line 756: disabled={isRunning}
RunButtonDisabled == isRunning

\* lines 53-54: nothing is being renamed; no delete or rename request in flight
ListIdle ==
    /\ deleteCalls = <<>>
    /\ renamingDocumentId = Null
    /\ renameValue = ""
    /\ renameCalls = <<>>

\* lines 52, 57: saveState 'idle', isOnline true; no request in flight; the
\* list of a server that has no document has been loaded (lines 64-126)
DocumentsIdle ==
    /\ isOnline = TRUE
    /\ saveState = "idle"
    /\ saveStateTimer = FALSE
    /\ saveCalls = <<>>
    /\ selectCalls = <<>>
    /\ untouchedSinceSave = FALSE
    /\ isLoadingDocuments = FALSE
    /\ documentsLoadError = Null
    /\ ListIdle

\* the tokenizer has been given nothing
LexerIdle ==
    /\ lexSource = <<>>
    /\ lexTokens = Null

Init ==
    /\ code = ""
    /\ documents = <<>>
    /\ selectedDocumentId = ""
    /\ output = <<>>
    /\ isRunning = FALSE
    /\ toastMessage = Null
    /\ autosave = Null
    /\ autoSaveTimer = Null
    /\ validateCalls = <<>>
    /\ executeCalls = <<>>
    /\ lastRun = Null
    /\ DocumentsIdle
    /\ LexerIdle
    /\ apiCall = Null
    /\ apiOutcome = Null
    /\ apiPromise = Null

\* line 784: onChange={(value) => setCode(value || '')}, then the autosave effect
EditCode(value) ==
    /\ value # code
    /\ code' = value
    /\ autoSaveTimer' = AutoSaveEffect(selectedDocumentId, value, autoSaveTimer)
    /\ validateCalls' = NoteCodeChange(validateCalls, TRUE)
    /\ lastRun' = NoteCodeChangeInRun(lastRun, TRUE)
    /\ untouchedSinceSave' = FALSE
    /\ UNCHANGED <<documents, selectedDocumentId, output, isRunning, toastMessage,
                   autosave, executeCalls, isOnline, saveState, saveStateTimer,
                   saveCalls, selectCalls>>
    /\ UNCHANGED <<apiVars, lexVars, listVars>>

\* lines 178-201: the 2000 ms timer fires and writes its closure to localStorage
AutoSaveFires ==
    /\ autoSaveTimer # Null
    /\ autosave' = AutoSaveEntry(autoSaveTimer)
    /\ autoSaveTimer' = Null
    /\ UNCHANGED <<code, documents, selectedDocumentId, output, isRunning, toastMessage,
                   validateCalls, executeCalls, lastRun>>
    /\ UNCHANGED docVars
    /\ UNCHANGED <<apiVars, lexVars, listVars>>

\* lines 316-340; `confirmed` is what window.confirm returns when it is asked
handleCreateNewDocument(confirmed) ==
    /\ Len(documents) < MaxDocuments
    /\ IF hasUnsavedChanges /\ ~confirmed
       THEN UNCHANGED <<code, documents, selectedDocumentId, autoSaveTimer,
                        validateCalls, lastRun, saveState, untouchedSinceSave>>
       ELSE LET newDocument == [id |-> createDocumentId, title |-> "Untitled",
                                content |-> "", isLocal |-> TRUE]
            IN  /\ documents' = <<newDocument>> \o documents
                /\ selectedDocumentId' = newDocument.id
                /\ code' = ""
                /\ autoSaveTimer' = AutoSaveEffect(newDocument.id, "", autoSaveTimer)
                /\ validateCalls' = NoteCodeChange(validateCalls, code # "")
                /\ lastRun' = NoteCodeChangeInRun(lastRun, code # "")
                /\ saveState' = "idle"
                /\ untouchedSinceSave' = FALSE
    /\ UNCHANGED <<output, isRunning, toastMessage, autosave, executeCalls,
                   isOnline, saveStateTimer, saveCalls, selectCalls>>
    /\ UNCHANGED <<apiVars, lexVars, listVars>>

\* lines 235-237: the 2200 ms timer of showToast
ToastTimeout ==
    /\ toastMessage # Null
    /\ toastMessage' = Null
    /\ UNCHANGED <<code, documents, selectedDocumentId, output, isRunning, autosave,
                   autoSaveTimer, validateCalls, executeCalls, lastRun>>
    /\ UNCHANGED docVars
    /\ UNCHANGED <<apiVars, lexVars, listVars>>

\* lines 592-598: the click on Run up to the await
handleRun ==
    /\ ~RunButtonDisabled
    /\ isRunning' = TRUE
    /\ output' = SetOutput(output, <<"> Validating pseudocode...">>)
    /\ validateCalls' = Append(validateCalls, [content |-> code, codeChanged |-> FALSE])
    /\ UNCHANGED <<code, documents, selectedDocumentId, toastMessage, autosave,
                   autoSaveTimer, executeCalls, lastRun>>
    /\ UNCHANGED docVars
    /\ UNCHANGED <<apiVars, lexVars, listVars>>

\* validateCalls without its i-th entry
RemoveAt(calls, i) ==
    SubSeq(calls, 1, i - 1) \o SubSeq(calls, i + 1, Len(calls))

\* lines 598-638: the i-th validation request settles and handleRun resumes
ValidateSettles(i, http) ==
    /\ i \in 1..Len(validateCalls)
    /\ http \in HttpOutcomes(validateCalls[i].content)
    /\ LET content == validateCalls[i].content
           promise == validatePseudocode(http)
           st == handleRunSettled(promise, [output |-> output, isRunning |-> isRunning,
                                            toastMessage |-> toastMessage])
           calls == handleRunExecuteCalls(promise, content)
       IN  /\ output' = st.output
           /\ isRunning' = st.isRunning
           /\ toastMessage' = st.toastMessage
           /\ executeCalls' = executeCalls
                  \o [k \in 1..Len(calls) |-> [content |-> calls[k], validation |-> promise]]
           /\ lastRun' = FinishedRun(validateCalls[i], http, promise, st.output, lastRun)
    /\ validateCalls' = RemoveAt(validateCalls, i)
    /\ UNCHANGED <<code, documents, selectedDocumentId, autosave, autoSaveTimer>>
    /\ UNCHANGED docVars
    /\ UNCHANGED <<apiVars, lexVars, listVars>>

Next ==
    \/ \E value \in Programs \cup {""} : EditCode(value)
    \/ AutoSaveFires
    \/ \E confirmed \in BOOLEAN : handleCreateNewDocument(confirmed)
    \/ ToastTimeout
    \/ handleRun
    \/ \E i \in 1..Len(validateCalls) :
           \E http \in HttpOutcomes(validateCalls[i].content) : ValidateSettles(i, http)

Spec == Init /\ [][Next]_vars

(***************************************************************************)
(* The documents of the App component: the autosave timer in time, the     *)
(* Save button and hotkey (handleSaveDocument), the document list          *)
(* (handleSelectDocument) and the online / offline events.  Run writes     *)
(* none of code, documents, selectedDocumentId and the autosave entry, so  *)
(* this specification leaves it out.  Time passes in seconds.              *)
(***************************************************************************)
\* create, update, get and delete requests in flight at a time
MaxRequests == 1

\* create and update requests of handleSaveDocument in flight at a time
MaxSaves == 2

\* the requests of the document handlers that have not settled
RequestsInFlight ==
    Len(saveCalls) + Len(selectCalls) + Len(deleteCalls) + Len(renameCalls)

\* the texts the user types while working on documents
DocTexts == {"", ValidProgram, UndeclaredProgram}

\* a second passes; a timer that is due fires before the next one does
Tick ==
    /\ autoSaveTimer # Null
    /\ autoSaveTimer.remaining > 0
    /\ autoSaveTimer' = [autoSaveTimer EXCEPT !.remaining = @ - 1]
    /\ UNCHANGED <<code, documents, selectedDocumentId, output, isRunning, toastMessage,
                   autosave, validateCalls, executeCalls, lastRun>>
    /\ UNCHANGED <<docVars, apiVars, lexVars, listVars>>

\* line 201: the timer fires 2000 ms after the effect set it
AutoSaveDue ==
    /\ autoSaveTimer # Null
    /\ autoSaveTimer.remaining = 0
    /\ AutoSaveFires

\* lines 204-223
handleOnline ==
    /\ ~isOnline
    /\ isOnline' = TRUE
    /\ toastMessage' = showToast([toastMessage |-> toastMessage], "Back online").toastMessage
    /\ UNCHANGED <<code, documents, selectedDocumentId, output, isRunning, autosave,
                   autoSaveTimer, validateCalls, executeCalls, lastRun>>
    /\ UNCHANGED <<saveState, saveStateTimer, saveCalls, selectCalls, untouchedSinceSave>>
    /\ UNCHANGED <<apiVars, lexVars, listVars>>

handleOffline ==
    /\ isOnline
    /\ isOnline' = FALSE
    /\ toastMessage' = showToast([toastMessage |-> toastMessage], "You are offline").toastMessage
    /\ UNCHANGED <<code, documents, selectedDocumentId, output, isRunning, autosave,
                   autoSaveTimer, validateCalls, executeCalls, lastRun>>
    /\ UNCHANGED <<saveState, saveStateTimer, saveCalls, selectCalls, untouchedSinceSave>>
    /\ UNCHANGED <<apiVars, lexVars, listVars>>

\* lines 246-249: the 1300 ms timer of setSavedIndicator
SavedIndicatorTimeout ==
    /\ saveStateTimer
    /\ saveStateTimer' = FALSE
    /\ saveState' = "idle"
    /\ UNCHANGED <<code, documents, selectedDocumentId, output, isRunning, toastMessage,
                   autosave, autoSaveTimer, validateCalls, executeCalls, lastRun>>
    /\ UNCHANGED <<isOnline, saveCalls, selectCalls, untouchedSinceSave>>
    /\ UNCHANGED <<apiVars, lexVars, listVars>>

\* lines 342-343, 345-350, 367-379: handleSaveDocument up to its await
handleSaveDocument ==
    /\ Len(saveCalls) < MaxSaves
    /\ selectedDocument # Null \/ Len(documents) < MaxDocuments
    /\ saveState' = "saving"
    /\ saveCalls' = Append(saveCalls,
           [request |-> IF selectedDocument = Null \/ selectedDocument.isLocal
                        THEN "create" ELSE "update",
            selectedDocument |-> IF selectedDocument = Null THEN Null
                                 ELSE [id |-> selectedDocument.id,
                                       isLocal |-> selectedDocument.isLocal],
            title |-> IF selectedDocument = Null THEN "Untitled" ELSE selectedDocument.title,
            content |-> code,
            isOnline |-> isOnline])
    /\ UNCHANGED <<code, documents, selectedDocumentId, output, isRunning, toastMessage,
                   autosave, autoSaveTimer, validateCalls, executeCalls, lastRun>>
    /\ UNCHANGED <<isOnline, saveStateTimer, selectCalls, untouchedSinceSave>>
    /\ UNCHANGED <<apiVars, lexVars, listVars>>

\* line 747: disabled={saveState === 'saving' || !isOnline}
SaveButtonDisabled == saveState = "saving" \/ ~isOnline

\* lines 743-752: the click on Save
SaveButton ==
    /\ ~SaveButtonDisabled
    /\ handleSaveDocument

\* the click on Save while no request of a document handler is in flight
SaveButtonAlone ==
    /\ RequestsInFlight < MaxRequests
    /\ SaveButton

\* lines 135-146: a keydown with Ctrl or Cmd held; key.toLowerCase() === 's'
handleSaveHotkey(key) ==
    /\ key \in {"s", "S"}
    /\ handleSaveDocument

(***************************************************************************)
(* createPseudocodeDocument and updatePseudocodeDocument are imported from *)
(* ./api/pseudocodeApi (lines 4, 8) and, like the functions next to them,  *)
(* resolve to the stored PseudocodeDocument or reject on a response that   *)
(* is not ok.  The server stores what it is sent and gives a document it   *)
(* creates an id the client has not seen, srv-n.                           *)
(***************************************************************************)
ServerDocumentId ==
    LET seen == DocumentIds \cup {selectedDocumentId} \cup IdsInFlight
        n == CHOOSE k \in 1..(Cardinality(seen) + 1) :
                 /\ "srv-" \o ToString(k) \notin seen
                 /\ \A j \in 1..(k - 1) : "srv-" \o ToString(j) \in seen
    IN  "srv-" \o ToString(n)

createPseudocodeDocument(payload) ==
    [id |-> ServerDocumentId, title |-> payload.title, content |-> payload.content]

updatePseudocodeDocument(id, payload) ==
    [id |-> id, title |-> payload.title, content |-> payload.content]

\* the content the server holds for a document of the list
ServerContent(documentId) ==
    documents[CHOOSE i \in 1..Len(documents) : documents[i].id = documentId].content

getPseudocodeDocumentById(documentId) ==
    [id |-> documentId,
     title |-> documents[CHOOSE i \in 1..Len(documents) : documents[i].id = documentId].title,
     content |-> ServerContent(documentId)]

RequestFailed == Error("HTTP error! status: 500")

\* lines 35-41, sortDocumentsByUpdatedAt: the list is kept newest first and the
\* document just saved is the newest
sortDocumentsByUpdatedAt(docs, newestId) ==
    LET newest == SelectSeq(docs, LAMBDA d : d.id = newestId)
        others == SelectSeq(docs, LAMBDA d : d.id # newestId)
    IN  newest \o others

\* the effect of lines 169-202 runs when selectedDocumentId or code changed
AutoSaveEffectOnChange(documentId, content) ==
    IF documentId # selectedDocumentId \/ content # code
    THEN AutoSaveEffect(documentId, content, autoSaveTimer)
    ELSE autoSaveTimer

\* lines 367-368, 410-411: localStorage.removeItem('pseudocode-autosave')
ClearAutosave(entry) == Null

\* lines 351-371, 381-413: the request succeeded and handleSaveDocument resumes
SaveSucceeds(i) ==
    /\ i \in 1..Len(saveCalls)
    /\ LET call == saveCalls[i]
           payload == [title |-> call.title, content |-> call.content]
           savedDocument == IF call.request = "create"
                            THEN createPseudocodeDocument(payload)
                            ELSE updatePseudocodeDocument(call.selectedDocument.id, payload)
           entry == [id |-> savedDocument.id, title |-> savedDocument.title,
                     content |-> savedDocument.content, isLocal |-> FALSE]
           matchId == IF call.selectedDocument = Null THEN ""
                      ELSE IF call.selectedDocument.isLocal THEN call.selectedDocument.id
                      ELSE savedDocument.id
           mapped == IF call.selectedDocument = Null
                     THEN <<entry>> \o documents
                     ELSE [k \in 1..Len(documents) |->
                              IF documents[k].id # matchId THEN documents[k] ELSE entry]
       IN  /\ code' = savedDocument.content
           /\ selectedDocumentId' = savedDocument.id
           /\ documents' = sortDocumentsByUpdatedAt(mapped, savedDocument.id)
           /\ autoSaveTimer' = AutoSaveEffectOnChange(savedDocument.id, savedDocument.content)
           /\ validateCalls' = NoteCodeChange(validateCalls, savedDocument.content # code)
           /\ lastRun' = NoteCodeChangeInRun(lastRun, savedDocument.content # code)
    /\ autosave' = ClearAutosave(autosave)
    /\ saveState' = "saved"
    /\ saveStateTimer' = TRUE
    /\ untouchedSinceSave' = TRUE
    /\ saveCalls' = RemoveAt(saveCalls, i)
    /\ UNCHANGED <<output, isRunning, toastMessage, executeCalls, isOnline, selectCalls>>
    /\ UNCHANGED <<apiVars, lexVars, listVars>>

\* lines 414-422: the request failed and handleSaveDocument catches
SaveFails(i) ==
    /\ i \in 1..Len(saveCalls)
    /\ saveState' = "error"
    /\ toastMessage' = showToast([toastMessage |-> toastMessage],
                                 "Save failed: " \o ErrorMessage(RequestFailed, "Failed to save document")).toastMessage
    /\ output' = SetOutput(output, <<"> Error:",
                                       ErrorMessage(RequestFailed, "Failed to save document")>>)
    /\ saveCalls' = RemoveAt(saveCalls, i)
    /\ UNCHANGED <<code, documents, selectedDocumentId, isRunning, autosave, autoSaveTimer,
                   validateCalls, executeCalls, lastRun>>
    /\ UNCHANGED <<isOnline, saveStateTimer, selectCalls, untouchedSinceSave>>
    /\ UNCHANGED <<apiVars, lexVars, listVars>>

\* lines 660-670: the documents are listed once loaded without an error
ListShown == ~isLoadingDocuments /\ documentsLoadError = Null

\* lines 265-290: the click on a document of the list, up to the await;
\* `confirmed` is what window.confirm returns when it is asked
handleSelectDocument(documentId, confirmed) ==
    /\ ListShown
    /\ documentId \in DocumentIds
    /\ documentId # selectedDocumentId
    /\ renamingDocumentId # [id |-> documentId]
    /\ LET nextDocument ==
               documents[CHOOSE i \in 1..Len(documents) : documents[i].id = documentId]
       IN  IF hasUnsavedChanges /\ ~confirmed
           THEN UNCHANGED <<code, selectedDocumentId, autoSaveTimer, validateCalls, lastRun,
                            selectCalls, untouchedSinceSave>>
           ELSE IF nextDocument.isLocal
           THEN /\ selectedDocumentId' = documentId
                /\ code' = nextDocument.content
                /\ autoSaveTimer' = AutoSaveEffectOnChange(documentId, nextDocument.content)
                /\ validateCalls' = NoteCodeChange(validateCalls, nextDocument.content # code)
                /\ lastRun' = NoteCodeChangeInRun(lastRun, nextDocument.content # code)
                /\ untouchedSinceSave' = FALSE
                /\ UNCHANGED selectCalls
           ELSE /\ RequestsInFlight < MaxRequests
                /\ selectCalls' = Append(selectCalls,
                       [documentId |-> documentId,
                        consented |-> IF hasUnsavedChanges
                                      THEN [content |-> code] ELSE Null])
                /\ UNCHANGED <<code, selectedDocumentId, autoSaveTimer, validateCalls,
                               lastRun, untouchedSinceSave>>
    /\ UNCHANGED <<documents, output, isRunning, toastMessage, autosave, executeCalls>>
    /\ UNCHANGED <<isOnline, saveState, saveStateTimer, saveCalls>>
    /\ UNCHANGED <<apiVars, lexVars, listVars>>

\* lines 291-307: the document arrived and handleSelectDocument resumes
SelectSucceeds(i) ==
    /\ i \in 1..Len(selectCalls)
    /\ selectCalls[i].documentId \in DocumentIds
    /\ LET documentId == selectCalls[i].documentId
           fullDocument == getPseudocodeDocumentById(documentId)
       IN  /\ selectedDocumentId' = documentId
           /\ code' = fullDocument.content
           /\ documents' = [k \in 1..Len(documents) |->
                               IF documents[k].id = documentId
                               THEN [documents[k] EXCEPT !.title = fullDocument.title,
                                                         !.content = fullDocument.content,
                                                         !.isLocal = FALSE]
                               ELSE documents[k]]
           /\ autoSaveTimer' = AutoSaveEffectOnChange(documentId, fullDocument.content)
           /\ validateCalls' = NoteCodeChange(validateCalls, fullDocument.content # code)
           /\ lastRun' = NoteCodeChangeInRun(lastRun, fullDocument.content # code)
           /\ untouchedSinceSave' = (/\ untouchedSinceSave
                                     /\ documentId = selectedDocumentId
                                     /\ fullDocument.content = code)
    /\ selectCalls' = RemoveAt(selectCalls, i)
    /\ UNCHANGED <<output, isRunning, toastMessage, autosave, executeCalls>>
    /\ UNCHANGED <<isOnline, saveState, saveStateTimer, saveCalls>>
    /\ UNCHANGED <<apiVars, lexVars, listVars>>

\* lines 308-313: the request failed and handleSelectDocument catches
SelectFails(i) ==
    /\ i \in 1..Len(selectCalls)
    /\ output' = SetOutput(output,
                          <<"> Error:",
                            ErrorMessage(RequestFailed, "Failed to load selected document")>>)
    /\ selectCalls' = RemoveAt(selectCalls, i)
    /\ UNCHANGED <<code, documents, selectedDocumentId, isRunning, toastMessage, autosave,
                   autoSaveTimer, validateCalls, executeCalls, lastRun>>
    /\ UNCHANGED <<isOnline, saveState, saveStateTimer, saveCalls, untouchedSinceSave>>
    /\ UNCHANGED <<apiVars, lexVars, listVars>>

DocsNext ==
    \/ \E value \in DocTexts : EditCode(value)
    \/ Tick
    \/ AutoSaveDue
    \/ \E confirmed \in BOOLEAN : handleCreateNewDocument(confirmed)
    \/ \E documentId \in DocumentIds, confirmed \in BOOLEAN :
           handleSelectDocument(documentId, confirmed)
    \/ \E i \in 1..Len(selectCalls) : SelectSucceeds(i)
    \/ SaveButtonAlone
    \/ \E i \in 1..Len(saveCalls) : SaveSucceeds(i)

SpecDocs == Init /\ [][DocsNext]_vars

\* the document list: switching documents while requests are in flight
SelectNext ==
    \/ \E value \in DocTexts : EditCode(value)
    \/ \E confirmed \in BOOLEAN : handleCreateNewDocument(confirmed)
    \/ \E documentId \in DocumentIds, confirmed \in BOOLEAN :
           handleSelectDocument(documentId, confirmed)
    \/ \E i \in 1..Len(selectCalls) : SelectSucceeds(i)
    \/ \E i \in 1..Len(selectCalls) : SelectFails(i)
    \/ SaveButtonAlone
    \/ \E i \in 1..Len(saveCalls) : SaveSucceeds(i)

SpecSelect == Init /\ [][SelectNext]_vars

\* the Save button and hotkey while the browser goes offline and online
OfflineNext ==
    \/ \E value \in DocTexts : EditCode(value)
    \/ SaveButton
    \/ \E key \in {"s", "S"} : handleSaveHotkey(key)
    \/ \E i \in 1..Len(saveCalls) : SaveSucceeds(i)
    \/ \E i \in 1..Len(saveCalls) : SaveFails(i)
    \/ SavedIndicatorTimeout
    \/ handleOnline
    \/ handleOffline
    \/ ToastTimeout

SpecOffline == Init /\ [][OfflineNext]_vars

\* saving with the button and the hotkey while save requests are in flight
SaveNext ==
    \/ \E value \in {"", ValidProgram} : EditCode(value)
    \/ \E confirmed \in BOOLEAN : handleCreateNewDocument(confirmed)
    \/ SaveButton
    \/ \E key \in {"s", "S"} : handleSaveHotkey(key)
    \/ \E i \in 1..Len(saveCalls) : SaveSucceeds(i)
    \/ \E i \in 1..Len(saveCalls) : SaveFails(i)
    \/ SavedIndicatorTimeout

SpecSave == Init /\ [][SaveNext]_vars

(***************************************************************************)
(* The document list: loadDocuments on mount, delete and rename.           *)
(* getPseudocodeDocuments (pseudocodeApi.ts 251) resolves to the documents *)
(* the server held before this session, or rejects.                        *)
(***************************************************************************)
\* a document the server held before this session
StoredDocument == [id |-> "doc-1", title |-> "Untitled", content |-> ValidProgram]

\* what getPseudocodeDocuments may resolve to
StoredLists == {<<>>, <<StoredDocument>>}

\* the autosave entry an earlier session left for the stored document
LeftOverEntry == [documentId |-> StoredDocument.id, content |-> UndeclaredProgram]

\* the titles typed into the rename input
RenameTitles == {" ", "Notes"}

\* String.prototype.trim over spaces
RECURSIVE Trim(_)
Trim(text) ==
    IF text = "" THEN ""
    ELSE IF SubSeq(text, 1, 1) = " " THEN Trim(SubSeq(text, 2, Len(text)))
    ELSE IF SubSeq(text, Len(text), Len(text)) = " " THEN Trim(SubSeq(text, 1, Len(text) - 1))
    ELSE text

\* documents.find(d => d.id === documentId), for an id of the list
FindDocument(docs, documentId) ==
    docs[CHOOSE i \in 1..Len(docs) : docs[i].id = documentId]

\* lines 64-67: the component has mounted and loadDocuments awaits the list
ListInit ==
    /\ code = ""
    /\ documents = <<>>
    /\ selectedDocumentId = ""
    /\ output = <<>>
    /\ isRunning = FALSE
    /\ toastMessage = Null
    /\ autosave \in {Null, LeftOverEntry}
    /\ autoSaveTimer = Null
    /\ validateCalls = <<>>
    /\ executeCalls = <<>>
    /\ lastRun = Null
    /\ isOnline = TRUE
    /\ saveState = "idle"
    /\ saveStateTimer = FALSE
    /\ saveCalls = <<>>
    /\ selectCalls = <<>>
    /\ untouchedSinceSave = FALSE
    /\ isLoadingDocuments = TRUE
    /\ documentsLoadError = Null
    /\ ListIdle
    /\ LexerIdle
    /\ apiCall = Null
    /\ apiOutcome = Null
    /\ apiPromise = Null

\* the state changes of setSelectedDocumentId(documentId) and setCode(content)
\* outside the user's own typing: the autosave effect and the history
SelectAndShow(documentId, content) ==
    /\ selectedDocumentId' = documentId
    /\ code' = content
    /\ autoSaveTimer' = AutoSaveEffectOnChange(documentId, content)
    /\ validateCalls' = NoteCodeChange(validateCalls, content # code)
    /\ lastRun' = NoteCodeChangeInRun(lastRun, content # code)
    /\ untouchedSinceSave' = (/\ untouchedSinceSave
                              /\ documentId = selectedDocumentId
                              /\ content = code)

\* lines 70-113, 122-124: the list arrived and loadDocuments resumes
LoadSucceeds(fetchedDocuments) ==
    /\ isLoadingDocuments
    /\ LET sortedDocuments ==
               [k \in 1..Len(fetchedDocuments) |->
                   [id |-> fetchedDocuments[k].id, title |-> fetchedDocuments[k].title,
                    content |-> fetchedDocuments[k].content, isLocal |-> FALSE]]
           restored ==
               /\ autosave # Null
               /\ autosave.documentId # ""
               /\ autosave.content # ""
               /\ \E k \in 1..Len(sortedDocuments) :
                      sortedDocuments[k].id = autosave.documentId
       IN  /\ documents' = sortedDocuments
           /\ IF restored
              THEN SelectAndShow(autosave.documentId, autosave.content)
              ELSE IF Len(sortedDocuments) > 0
              THEN SelectAndShow(sortedDocuments[1].id, sortedDocuments[1].content)
              ELSE SelectAndShow("", "")
    /\ isLoadingDocuments' = FALSE
    /\ UNCHANGED <<output, isRunning, toastMessage, autosave, executeCalls>>
    /\ UNCHANGED <<isOnline, saveState, saveStateTimer, saveCalls, selectCalls>>
    /\ UNCHANGED <<documentsLoadError, deleteCalls, renamingDocumentId, renameValue,
                   renameCalls>>
    /\ UNCHANGED <<apiVars, lexVars>>

\* lines 114-124: the request failed and loadDocuments catches
LoadFails ==
    /\ isLoadingDocuments
    /\ documentsLoadError' = [message |-> ErrorMessage(RequestFailed,
                                                       "Failed to load documents")]
    /\ toastMessage' = showToast([toastMessage |-> toastMessage],
                                 "Failed to load documents from server").toastMessage
    /\ documents' = <<>>
    /\ SelectAndShow("", "")
    /\ isLoadingDocuments' = FALSE
    /\ UNCHANGED <<output, isRunning, autosave, executeCalls>>
    /\ UNCHANGED <<isOnline, saveState, saveStateTimer, saveCalls, selectCalls>>
    /\ UNCHANGED <<deleteCalls, renamingDocumentId, renameValue, renameCalls>>
    /\ UNCHANGED <<apiVars, lexVars>>

\* lines 441-458: handleDeleteDocument after its await, with the `documents`
\* and `selectedDocumentId` of the render in which the ✕ was clicked
DeleteFromList(documentId, closureDocuments, closureSelectedDocumentId) ==
    LET remainingDocuments == SelectSeq(closureDocuments, LAMBDA d : d.id # documentId)
        sortedRemaining == sortDocumentsByUpdatedAt(remainingDocuments, "")
    IN  /\ documents' = sortedRemaining
        /\ IF documentId = closureSelectedDocumentId
           THEN IF Len(sortedRemaining) > 0
                THEN SelectAndShow(sortedRemaining[1].id, sortedRemaining[1].content)
                ELSE SelectAndShow("", "")
           ELSE SelectAndShow(selectedDocumentId, code)
        /\ toastMessage' = showToast([toastMessage |-> toastMessage],
                                     "Document deleted").toastMessage

\* lines 425-439: the click on ✕ up to the await; `shouldDelete` is what
\* window.confirm returns.  A local document is deleted without a request.
handleDeleteDocument(documentId, shouldDelete) ==
    /\ ListShown
    /\ documentId \in DocumentIds
    /\ IF ~shouldDelete
       THEN UNCHANGED <<code, documents, selectedDocumentId, toastMessage, autoSaveTimer,
                        validateCalls, lastRun, untouchedSinceSave, deleteCalls>>
       ELSE IF FindDocument(documents, documentId).isLocal
       THEN /\ DeleteFromList(documentId, documents, selectedDocumentId)
            /\ UNCHANGED deleteCalls
       ELSE /\ RequestsInFlight < MaxRequests
            /\ deleteCalls' = Append(deleteCalls,
                   [documentId |-> documentId, documents |-> documents,
                    selectedDocumentId |-> selectedDocumentId])
            /\ UNCHANGED <<code, documents, selectedDocumentId, toastMessage, autoSaveTimer,
                           validateCalls, lastRun, untouchedSinceSave>>
    /\ UNCHANGED <<output, isRunning, autosave, executeCalls>>
    /\ UNCHANGED <<isOnline, saveState, saveStateTimer, saveCalls, selectCalls>>
    /\ UNCHANGED <<isLoadingDocuments, documentsLoadError, renamingDocumentId, renameValue,
                   renameCalls>>
    /\ UNCHANGED <<apiVars, lexVars>>

\* lines 438-458: the server deleted the document and handleDeleteDocument resumes
DeleteSucceeds(i) ==
    /\ i \in 1..Len(deleteCalls)
    /\ DeleteFromList(deleteCalls[i].documentId, deleteCalls[i].documents,
                      deleteCalls[i].selectedDocumentId)
    /\ deleteCalls' = RemoveAt(deleteCalls, i)
    /\ UNCHANGED <<output, isRunning, autosave, executeCalls>>
    /\ UNCHANGED <<isOnline, saveState, saveStateTimer, saveCalls, selectCalls>>
    /\ UNCHANGED <<isLoadingDocuments, documentsLoadError, renamingDocumentId, renameValue,
                   renameCalls>>
    /\ UNCHANGED <<apiVars, lexVars>>

\* lines 459-466: the request failed and handleDeleteDocument catches
DeleteFails(i) ==
    /\ i \in 1..Len(deleteCalls)
    /\ toastMessage' = showToast([toastMessage |-> toastMessage],
                                 "Delete failed: " \o ErrorMessage(RequestFailed, "Failed to delete document")).toastMessage
    /\ output' = SetOutput(output, <<"> Error:",
                                       ErrorMessage(RequestFailed, "Failed to delete document")>>)
    /\ deleteCalls' = RemoveAt(deleteCalls, i)
    /\ UNCHANGED <<code, documents, selectedDocumentId, isRunning, autosave, autoSaveTimer,
                   validateCalls, executeCalls, lastRun>>
    /\ UNCHANGED docVars
    /\ UNCHANGED <<isLoadingDocuments, documentsLoadError, renamingDocumentId, renameValue,
                   renameCalls>>
    /\ UNCHANGED <<apiVars, lexVars>>

\* lines 468-471, 705-716: the double click on the title of a listed document
beginRenameDocument(documentId) ==
    /\ ListShown
    /\ documentId \in DocumentIds
    /\ renamingDocumentId # [id |-> documentId]
    /\ renamingDocumentId' = [id |-> documentId]
    /\ renameValue' = FindDocument(documents, documentId).title
    /\ UNCHANGED <<code, documents, selectedDocumentId, output, isRunning, toastMessage,
                   autosave, autoSaveTimer, validateCalls, executeCalls, lastRun>>
    /\ UNCHANGED docVars
    /\ UNCHANGED <<isLoadingDocuments, documentsLoadError, deleteCalls, renameCalls>>
    /\ UNCHANGED <<apiVars, lexVars>>

\* the rename input of lines 684-703 is on screen
RenameInputShown ==
    /\ ListShown
    /\ renamingDocumentId # Null
    /\ renamingDocumentId.id \in DocumentIds

\* line 689: onChange of the rename input
changeRenameValue(value) ==
    /\ RenameInputShown
    /\ value # renameValue
    /\ renameValue' = value
    /\ UNCHANGED <<code, documents, selectedDocumentId, output, isRunning, toastMessage,
                   autosave, autoSaveTimer, validateCalls, executeCalls, lastRun>>
    /\ UNCHANGED docVars
    /\ UNCHANGED <<isLoadingDocuments, documentsLoadError, deleteCalls, renamingDocumentId,
                   renameCalls>>
    /\ UNCHANGED <<apiVars, lexVars>>

\* lines 473-476, 700-703: Escape in the rename input
cancelRenameDocument ==
    /\ RenameInputShown
    /\ renamingDocumentId' = Null
    /\ renameValue' = ""
    /\ UNCHANGED <<code, documents, selectedDocumentId, output, isRunning, toastMessage,
                   autosave, autoSaveTimer, validateCalls, executeCalls, lastRun>>
    /\ UNCHANGED docVars
    /\ UNCHANGED <<isLoadingDocuments, documentsLoadError, deleteCalls, renameCalls>>
    /\ UNCHANGED <<apiVars, lexVars>>

\* lines 478-506: Enter or blur in the rename input, up to the await
commitRenameDocument(documentId) ==
    /\ RenameInputShown
    /\ renamingDocumentId.id = documentId
    /\ LET documentToRename == FindDocument(documents, documentId)
           normalizedTitle == IF Trim(renameValue) = "" THEN "Untitled" ELSE Trim(renameValue)
       IN  IF normalizedTitle = documentToRename.title
           THEN UNCHANGED <<documents, renameCalls>>
           ELSE /\ documents' = [k \in 1..Len(documents) |->
                                    IF documents[k].id = documentId
                                    THEN [documents[k] EXCEPT !.title = normalizedTitle]
                                    ELSE documents[k]]
                /\ IF documentToRename.isLocal
                   THEN UNCHANGED renameCalls
                   ELSE /\ RequestsInFlight < MaxRequests
                        /\ renameCalls' = Append(renameCalls,
                               [documentId |-> documentId, title |-> normalizedTitle,
                                content |-> documentToRename.content])
    /\ renamingDocumentId' = Null
    /\ renameValue' = ""
    /\ UNCHANGED <<code, selectedDocumentId, output, isRunning, toastMessage,
                   autosave, autoSaveTimer, validateCalls, executeCalls, lastRun>>
    /\ UNCHANGED docVars
    /\ UNCHANGED <<isLoadingDocuments, documentsLoadError, deleteCalls>>
    /\ UNCHANGED <<apiVars, lexVars>>

\* lines 507-524: the server stored the title and commitRenameDocument resumes
RenameSucceeds(i) ==
    /\ i \in 1..Len(renameCalls)
    /\ LET documentId == renameCalls[i].documentId
           updatedDocument ==
               updatePseudocodeDocument(documentId, [title |-> renameCalls[i].title,
                                                     content |-> renameCalls[i].content])
       IN  documents' = sortDocumentsByUpdatedAt(
               [k \in 1..Len(documents) |->
                   IF documents[k].id = documentId
                   THEN [documents[k] EXCEPT !.title = updatedDocument.title,
                                             !.content = updatedDocument.content,
                                             !.isLocal = FALSE]
                   ELSE documents[k]],
               documentId)
    /\ renameCalls' = RemoveAt(renameCalls, i)
    /\ UNCHANGED <<code, selectedDocumentId, output, isRunning, toastMessage,
                   autosave, autoSaveTimer, validateCalls, executeCalls, lastRun>>
    /\ UNCHANGED docVars
    /\ UNCHANGED <<isLoadingDocuments, documentsLoadError, deleteCalls, renamingDocumentId,
                   renameValue>>
    /\ UNCHANGED <<apiVars, lexVars>>

\* lines 525-533: the request failed and commitRenameDocument catches
RenameFails(i) ==
    /\ i \in 1..Len(renameCalls)
    /\ toastMessage' = showToast([toastMessage |-> toastMessage],
                                 "Rename failed: " \o ErrorMessage(RequestFailed, "Failed to rename document")).toastMessage
    /\ output' = SetOutput(output, <<"> Error:",
                                       ErrorMessage(RequestFailed, "Failed to rename document")>>)
    /\ renameCalls' = RemoveAt(renameCalls, i)
    /\ UNCHANGED <<code, documents, selectedDocumentId, isRunning, autosave, autoSaveTimer,
                   validateCalls, executeCalls, lastRun>>
    /\ UNCHANGED docVars
    /\ UNCHANGED <<isLoadingDocuments, documentsLoadError, deleteCalls, renamingDocumentId,
                   renameValue>>
    /\ UNCHANGED <<apiVars, lexVars>>

\* load, select, create, save and delete with their requests in flight
ListNext ==
    \/ \E value \in {"", ValidProgram} : EditCode(value)
    \/ \E fetchedDocuments \in StoredLists : LoadSucceeds(fetchedDocuments)
    \/ LoadFails
    \/ \E confirmed \in BOOLEAN : handleCreateNewDocument(confirmed)
    \/ \E documentId \in DocumentIds, confirmed \in BOOLEAN :
           handleSelectDocument(documentId, confirmed)
    \/ \E i \in 1..Len(selectCalls) : SelectSucceeds(i)
    \/ SaveButtonAlone
    \/ \E i \in 1..Len(saveCalls) : SaveSucceeds(i)
    \/ \E documentId \in DocumentIds, shouldDelete \in BOOLEAN :
           handleDeleteDocument(documentId, shouldDelete)
    \/ \E i \in 1..Len(deleteCalls) : DeleteSucceeds(i)
    \/ \E i \in 1..Len(deleteCalls) : DeleteFails(i)

SpecList == ListInit /\ [][ListNext]_vars

\* renaming the documents of the list while documents are created and deleted
RenameNext ==
    \/ \E fetchedDocuments \in StoredLists : LoadSucceeds(fetchedDocuments)
    \/ LoadFails
    \/ \E confirmed \in BOOLEAN : handleCreateNewDocument(confirmed)
    \/ \E documentId \in DocumentIds, confirmed \in BOOLEAN :
           handleSelectDocument(documentId, confirmed)
    \/ \E i \in 1..Len(selectCalls) : SelectSucceeds(i)
    \/ \E documentId \in DocumentIds, shouldDelete \in BOOLEAN :
           handleDeleteDocument(documentId, shouldDelete)
    \/ \E i \in 1..Len(deleteCalls) : DeleteSucceeds(i)
    \/ \E documentId \in DocumentIds : beginRenameDocument(documentId)
    \/ \E value \in RenameTitles : changeRenameValue(value)
    \/ cancelRenameDocument
    \/ \E documentId \in DocumentIds : commitRenameDocument(documentId)
    \/ \E i \in 1..Len(renameCalls) : RenameSucceeds(i)
    \/ \E i \in 1..Len(renameCalls) : RenameFails(i)

SpecRename == ListInit /\ [][RenameNext]_vars

(***************************************************************************)
(* Run on a program that does not terminate.                               *)
(***************************************************************************)
LoopTexts == {"", InfiniteLoopProgram}

LoopNext ==
    \/ \E value \in LoopTexts : EditCode(value)
    \/ handleRun
    \/ \E i \in 1..Len(validateCalls) :
           \E http \in HttpOutcomes(validateCalls[i].content) : ValidateSettles(i, http)
    \/ ToastTimeout

SpecLoop == Init /\ [][LoopNext]_vars

(***************************************************************************)
(* The Monarch tokenizer of the 'pseudocode' language (part_001 535-570).  *)
(* Monarch tokenizes line by line: at each position the first rule of the  *)
(* current state whose regular expression matches there gives the token;   *)
(* where no rule matches, one character gets the default token 'source'.   *)
(* The state at the end of a line is the state the next line starts in.    *)
(* A token is [token, text, state, next]: its type, the matched text, the  *)
(* state it was matched in and the state after it.                         *)
(***************************************************************************)
\* lines 537-541
keywords ==
    {"IF", "THEN", "ELSE", "ENDIF", "WHILE", "FOR", "ENDWHILE", "ENDFOR", "FUNCTION",
     "RETURN", "OUTPUT", "INPUT", "SET", "TO", "DO", "REPEAT", "UNTIL", "CASE", "OF",
     "OTHERWISE", "ENDCASE", "PROCEDURE", "CALL", "DECLARE", "CONSTANT", "NEXT", "TYPE"}

\* line 542
types == {"INTEGER", "STRING", "BOOLEAN", "REAL", "CHAR", "ARRAY", "DATE", "RECORD"}

\* line 543
constants == {"TRUE", "FALSE", "NULL"}

\* line 544, without the four glyphs outside ASCII (left arrow, less-or-equal,
\* greater-or-equal, not-equal), which a module cannot spell; like `=` they
\* are characters no rule of the tokenizer starts with
operators == {"=", "+", "-", "*", "/", "<", ">", "AND", "OR", "NOT", "MOD", "DIV"}

UpperCase ==
    {"A", "B", "C", "D", "E", "F", "G", "H", "I", "J", "K", "L", "M",
     "N", "O", "P", "Q", "R", "S", "T", "U", "V", "W", "X", "Y", "Z"}
LowerCase ==
    {"a", "b", "c", "d", "e", "f", "g", "h", "i", "j", "k", "l", "m",
     "n", "o", "p", "q", "r", "s", "t", "u", "v", "w", "x", "y", "z"}
Digits == {"0", "1", "2", "3", "4", "5", "6", "7", "8", "9"}
\* the class \w
WordChars == UpperCase \cup LowerCase \cup Digits \cup {"_"}

CharAt(line, pos) == SubSeq(line, pos, pos)

\* the length of the greedy match of [class]* at pos
RECURSIVE RunLength(_, _, _)
RunLength(line, pos, class) ==
    IF pos > Len(line) \/ CharAt(line, pos) \notin class
    THEN 0
    ELSE 1 + RunLength(line, pos + 1, class)

\* the length of the greedy match of [^excluded]* at pos
RECURSIVE RunLengthNot(_, _, _)
RunLengthNot(line, pos, excluded) ==
    IF pos > Len(line) \/ CharAt(line, pos) \in excluded
    THEN 0
    ELSE 1 + RunLengthNot(line, pos + 1, excluded)

\* line 552: ([^"\\]|\\.)*$ matches from pos to the end of the line
RECURSIVE InvalidStringBody(_, _)
InvalidStringBody(line, pos) ==
    IF pos > Len(line) THEN TRUE
    ELSE IF CharAt(line, pos) = "\"" THEN FALSE
    ELSE IF CharAt(line, pos) = "\\"
         THEN pos < Len(line) /\ InvalidStringBody(line, pos + 2)
    ELSE InvalidStringBody(line, pos + 1)

\* line 555: the length of the match of \d+(\.\d+)? at pos
NumberLength(line, pos) ==
    LET whole == RunLength(line, pos, Digits)
        fraction == RunLength(line, pos + whole + 1, Digits)
    IN  IF whole > 0 /\ pos + whole <= Len(line) /\ CharAt(line, pos + whole) = "."
           /\ fraction > 0
        THEN whole + 1 + fraction
        ELSE whole

\* lines 548-550: the cases of the rule [A-Z]+
UpperCaseToken(text) ==
    IF text \in keywords THEN "keyword"
    ELSE IF text \in types THEN "type"
    ELSE IF text \in constants THEN "constant"
    ELSE IF text \in operators THEN "operator"
    ELSE "identifier"

\* Monarch's token for a position no rule matches: one character
DefaultToken(state) == [len |-> 1, token |-> "source", next |-> state]

\* lines 547-558: the first rule of `root` that matches at pos
RootRule(line, pos) ==
    LET c == CharAt(line, pos)
        rest == Len(line) - pos + 1
    IN  IF c \in UpperCase
        THEN LET len == RunLength(line, pos, UpperCase)
             IN  [len |-> len, token |-> UpperCaseToken(SubSeq(line, pos, pos + len - 1)),
                  next |-> "root"]
        ELSE IF c \in LowerCase \cup {"_"}
        THEN [len |-> 1 + RunLength(line, pos + 1, WordChars), token |-> "variable",
              next |-> "root"]
        ELSE IF c = "\"" /\ InvalidStringBody(line, pos + 1)
        THEN [len |-> rest, token |-> "string.invalid", next |-> "root"]
        ELSE IF c = "\""
        THEN [len |-> 1, token |-> "string.quote", next |-> "string"]
        ELSE IF c \in Digits
        THEN [len |-> NumberLength(line, pos), token |-> "number", next |-> "root"]
        ELSE IF c = "/" /\ pos < Len(line) /\ CharAt(line, pos + 1) = "/"
        THEN [len |-> rest, token |-> "comment", next |-> "root"]
        ELSE IF c = "#"
        THEN [len |-> rest, token |-> "comment", next |-> "root"]
        ELSE DefaultToken("root")

\* lines 560-567: the first rule of `string` that matches at pos; @pop goes
\* back to root, the only state `string` is entered from
StringRule(line, pos) ==
    LET c == CharAt(line, pos)
    IN  IF c \notin {"\\", "\""}
        THEN [len |-> RunLengthNot(line, pos, {"\\", "\""}), token |-> "string",
              next |-> "string"]
        ELSE IF c = "\""
        THEN [len |-> 1, token |-> "string.quote", next |-> "root"]
        ELSE DefaultToken("string")

\* the tokens of one line from pos on, and the state at its end
RECURSIVE TokenizeLine(_, _, _)
TokenizeLine(line, pos, state) ==
    IF pos > Len(line)
    THEN [tokens |-> <<>>, state |-> state]
    ELSE LET rule == IF state = "root" THEN RootRule(line, pos) ELSE StringRule(line, pos)
             rest == TokenizeLine(line, pos + rule.len, rule.next)
         IN  [tokens |-> <<[token |-> rule.token,
                            text |-> SubSeq(line, pos, pos + rule.len - 1),
                            state |-> state,
                            next |-> rule.next]>> \o rest.tokens,
              state |-> rest.state]

\* the lines from the i-th on, each tokenized from the state the one before ended in
RECURSIVE TokenizeLines(_, _, _)
TokenizeLines(lines, i, state) ==
    IF i > Len(lines)
    THEN <<>>
    ELSE LET result == TokenizeLine(lines[i], 1, state)
         IN  <<[start |-> state, tokens |-> result.tokens, end |-> result.state]>>
                 \o TokenizeLines(lines, i + 1, result.state)

\* the tokens provider on a model: the first line starts in `root`
Tokenize(lines) == TokenizeLines(lines, 1, "root")

\* the pieces the lines given to the tokenizer are made of
LexPieces == {"\"", "\\", "\\\"", "IF", "REAL", "AND", "if", "x", "1", "=", "/", "#", " "}

\* pieces in a line
MaxPieces == 3

RECURSIVE PieceLines(_)
PieceLines(n) ==
    IF n = 0
    THEN {""}
    ELSE LET shorter == PieceLines(n - 1)
         IN  shorter \cup { line \o piece : line \in shorter, piece \in LexPieces }

\* the lines that follow the first
FollowingLines == {"IF", "#x", "x"}

LexInputs ==
    { <<line>> : line \in PieceLines(MaxPieces) }
        \cup { <<line, following>> : line \in PieceLines(MaxPieces),
                                     following \in FollowingLines }

\* the editor holds the lines and has not tokenized them yet
LexInit ==
    /\ lexSource \in LexInputs
    /\ lexTokens = Null
    /\ code = ""
    /\ documents = <<>>
    /\ selectedDocumentId = ""
    /\ output = <<>>
    /\ isRunning = FALSE
    /\ toastMessage = Null
    /\ autosave = Null
    /\ autoSaveTimer = Null
    /\ validateCalls = <<>>
    /\ executeCalls = <<>>
    /\ lastRun = Null
    /\ DocumentsIdle
    /\ apiCall = Null
    /\ apiOutcome = Null
    /\ apiPromise = Null

\* Monaco runs the tokens provider over the lines
TokenizeSource ==
    /\ lexTokens = Null
    /\ lexTokens' = [lines |-> Tokenize(lexSource)]
    /\ UNCHANGED <<lexSource, appVars, apiVars>>

LexNext == TokenizeSource

SpecLexer == LexInit /\ [][LexNext]_vars

(***************************************************************************)
(* The API boundary on its own: one call of validatePseudocode or          *)
(* executePseudocode under every HTTP exchange within the bounds, and,     *)
(* for validatePseudocode, handleRun resuming on the promise.              *)
(***************************************************************************)
SampleStatuses == {200, 404, 500}

ApiBodies(call) ==
    IF call = "validatePseudocode"
    THEN ValidationBodies \cup {NullBody, EmptyObjectBody}
    ELSE ExecuteBodies \cup {NullBody}

ApiOutcomes(call) ==
    { FetchRejects(thrown) : thrown \in {Error("Failed to fetch"), NotAnError} }
        \cup { UnparsableResponse(status) : status \in SampleStatuses }
        \cup { Response(status, body) : status \in SampleStatuses, body \in ApiBodies(call) }

\* the component right after the click on Run (validatePseudocode), or idle
ApiInit ==
    /\ apiCall \in {"validatePseudocode", "executePseudocode"}
    /\ apiOutcome \in ApiOutcomes(apiCall)
    /\ apiPromise = Null
    /\ code = ""
    /\ documents = <<>>
    /\ selectedDocumentId = ""
    /\ toastMessage = Null
    /\ autosave = Null
    /\ autoSaveTimer = Null
    /\ executeCalls = <<>>
    /\ lastRun = Null
    /\ isRunning = (apiCall = "validatePseudocode")
    /\ output = IF apiCall = "validatePseudocode"
                THEN <<"> Validating pseudocode...">> ELSE <<>>
    /\ validateCalls = IF apiCall = "validatePseudocode"
                       THEN <<[content |-> code, codeChanged |-> FALSE]>> ELSE <<>>
    /\ DocumentsIdle
    /\ LexerIdle

\* the HTTP exchange ends and the API function's promise settles
ApiSettles ==
    /\ apiPromise = Null
    /\ apiPromise' = IF apiCall = "validatePseudocode"
                     THEN validatePseudocode(apiOutcome)
                     ELSE executePseudocode(apiOutcome)
    /\ UNCHANGED <<apiCall, apiOutcome>>
    /\ UNCHANGED <<appVars, lexVars>>

\* lines 598-638: handleRun resumes on the settled promise
RunResumes ==
    /\ apiCall = "validatePseudocode"
    /\ apiPromise # Null
    /\ validateCalls # <<>>
    /\ LET st == handleRunSettled(apiPromise, [output |-> output, isRunning |-> isRunning,
                                               toastMessage |-> toastMessage])
       IN  /\ output' = st.output
           /\ isRunning' = st.isRunning
           /\ toastMessage' = st.toastMessage
           /\ lastRun' = FinishedRun(validateCalls[1], apiOutcome, apiPromise, st.output,
                                      lastRun)
    /\ validateCalls' = <<>>
    /\ UNCHANGED <<code, documents, selectedDocumentId, autosave, autoSaveTimer, executeCalls>>
    /\ UNCHANGED docVars
    /\ UNCHANGED <<apiVars, lexVars, listVars>>

ApiNext == ApiSettles \/ RunResumes

SpecApi == ApiInit /\ [][ApiNext]_vars

(***************************************************************************)
(* Properties.                                                             *)
(***************************************************************************)
\* the validation a finished run received says the source is valid / invalid
SaidValid(promise) ==
    promise.state = "fulfilled" /\ promise.value.shape = "validation"
        /\ promise.value.isValid
SaidInvalid(promise) ==
    promise.state = "fulfilled" /\ promise.value.shape = "validation"
        /\ ~promise.value.isValid

\* the HTTP exchange failed: no connection, a non-2xx status or an unparsable body
HttpFailed(http) ==
    \/ http.kind = "reject"
    \/ http.kind = "response" /\ http.status \notin 200..299
    \/ http.kind = "response" /\ ~http.parses

\* C1: every executePseudocode request the App issued was issued for a source
\* text after a validation result for that text arrived, and that result
\* said isValid = true; none was issued for a text reported invalid.
C1_NoExecuteForInvalidSource ==
    \A k \in 1..Len(executeCalls) : SaidValid(executeCalls[k].validation)

\* C1 witness: a Run whose validation reported isValid = false has finished
C1_Witness ==
    /\ lastRun # Null
    /\ Delivered(lastRun.http)
    /\ SaidInvalid(lastRun.validation)
    /\ Len(lastRun.validation.value.errors) > 0
    /\ executeCalls = <<>>

\* C2: whenever the HTTP exchange fails (fetch rejects, non-2xx status,
\* unparsable body) validatePseudocode fulfils with isValid = false, exactly one
\* error with lineNumber 0 and code CONNECTION_ERROR and no warnings, and
\* executePseudocode fulfils with success = false and an error message; under
\* no exchange at all does either promise reject.
C2_FailuresAreValues ==
    apiPromise # Null =>
        /\ apiPromise.state = "fulfilled"
        /\ (HttpFailed(apiOutcome) /\ apiCall = "validatePseudocode") =>
               LET value == apiPromise.value
               IN  /\ value.isValid = FALSE
                   /\ Len(value.errors) = 1
                   /\ value.errors[1].lineNumber = 0
                   /\ value.errors[1].code = "CONNECTION_ERROR"
                   /\ Len(value.errors[1].message) > 0
                   /\ value.warnings = <<>>
        /\ (HttpFailed(apiOutcome) /\ apiCall = "executePseudocode") =>
               LET value == apiPromise.value
               IN  /\ value.success = FALSE
                   /\ Len(value.error) > 0
                   /\ (apiOutcome.kind = "response" /\ apiOutcome.status \notin 200..299) =>
                          value.error = "HTTP error! status: " \o ToString(apiOutcome.status)

\* C2 witness: validatePseudocode has settled on a 2xx response with an unparsable body
C2_Witness ==
    /\ apiCall = "validatePseudocode"
    /\ apiOutcome.kind = "response"
    /\ apiOutcome.status = 200
    /\ ~apiOutcome.parses
    /\ apiPromise # Null

\* C3 (as claimed): once a Run on code that validation reported valid has
\* finished, an executePseudocode request for that code has been issued.
C3_ValidRunExecutes ==
    (lastRun # Null /\ SaidValid(lastRun.validation)) =>
        \E k \in 1..Len(executeCalls) : executeCalls[k].content = lastRun.content

\* C4: at most one validation request started by Run is in flight, isRunning
\* is true while it is, and while isRunning is true a click starts no run.
C4_OneRunAtATime ==
    /\ Len(validateCalls) <= 1
    /\ validateCalls # <<>> => isRunning
    /\ isRunning => ~ENABLED handleRun

\* C4 witness: a validation request is in flight and the button is disabled
C4_Witness ==
    /\ Len(validateCalls) = 1
    /\ isRunning
    /\ output = <<"> Validating pseudocode...">>

\* C5: whenever no handleRun is waiting for its validation request, isRunning
\* is false: every path through the handler resets it.
C5_RunReenablesButton ==
    validateCalls = <<>> => ~isRunning

\* C5 witness: a Run ended in the catch block and the button is enabled again
C5_Witness ==
    /\ lastRun # Null
    /\ lastRun.output[1] = "> Error:"
    /\ validateCalls = <<>>
    /\ ~isRunning

\* C6: when a validation result reports isValid = false, the terminal lines
\* that start with "Line " are exactly one `Line N: message` line per entry of
\* errors, in order, followed by one per entry of warnings, in order.
C6_DiagnosticsFullyEnumerated ==
    (lastRun # Null /\ SaidInvalid(lastRun.validation)) =>
        LET result == lastRun.validation.value
            diagnostics == result.errors \o result.warnings
            IsDiagnosticLine(line) == StartsWith(line, "Line ")
        IN  /\ output[1] = "> Validation Failed:"
            /\ SelectSeq(output, IsDiagnosticLine)
                   = [i \in 1..Len(diagnostics) |->
                         "Line " \o ToString(diagnostics[i].lineNumber) \o ": "
                             \o diagnostics[i].message]

\* C6 witness: a result with two different errors and two warnings was shown
C6_Witness ==
    /\ lastRun # Null
    /\ SaidInvalid(lastRun.validation)
    /\ Len(lastRun.validation.value.errors) = 2
    /\ lastRun.validation.value.errors[1] # lastRun.validation.value.errors[2]
    /\ Len(lastRun.validation.value.warnings) = 2
    /\ Len(output) = 8

\* C7 (as claimed): for every UNDECLARED_VARIABLE error whose message is
\* `Line <N>: Variable '<name>' used before declaration`, the terminal shows a
\* line that is exactly that text.
C7_DocumentedMessageShape ==
    (lastRun # Null /\ SaidInvalid(lastRun.validation)) =>
        \A i \in 1..Len(lastRun.validation.value.errors) :
            LET error == lastRun.validation.value.errors[i]
            IN  (/\ error.code = "UNDECLARED_VARIABLE"
                 /\ StartsWith(error.message,
                               "Line " \o ToString(error.lineNumber) \o ": Variable '")) =>
                    \E n \in 1..Len(lastRun.output) : lastRun.output[n] = error.message

\* C8 (as claimed): after a Run that failed validation the header
\* "> Validation Failed:" and every error line carry the error style, and after
\* a Run that passed validation no line does.
C8_ErrorsRedSuccessNot ==
    lastRun # Null =>
        LET shown == lastRun.output
        IN  /\ SaidInvalid(lastRun.validation) =>
                   \A n \in 1..Len(shown) :
                       (shown[n] = "> Validation Failed:" \/ StartsWith(shown[n], "Line "))
                           => TerminalLineClass(shown[n]) = "terminal-line error"
            /\ SaidValid(lastRun.validation) =>
                   \A n \in 1..Len(shown) :
                       TerminalLineClass(shown[n]) = "terminal-line"

\* C9 (as claimed): a Run whose request met no backend, or a non-2xx status,
\* is not shown as a line-numbered diagnostic under "> Validation Failed:".
C9_TransportFaultNotADiagnostic ==
    (/\ lastRun # Null
     /\ \/ lastRun.http.kind = "reject"
        \/ lastRun.http.kind = "response" /\ lastRun.http.status \notin 200..299) =>
        ~(/\ lastRun.output[1] = "> Validation Failed:"
          /\ \E n \in 1..Len(lastRun.output) : StartsWith(lastRun.output[n], "Line "))

\* a step in which a Run starts or finishes changes none of the editor code,
\* the document list, the selected document and the autosave entry
RunHasNoSideEffect ==
    Len(validateCalls') # Len(validateCalls) =>
        UNCHANGED <<code, documents, selectedDocumentId, autosave>>

\* the run that finishes in this step follows a finished run on the same
\* source text, the editor text unchanged since that run was clicked
RepeatsLastRun ==
    /\ lastRun # Null
    /\ lastRun' # lastRun
    /\ Len(validateCalls') < Len(validateCalls)
    /\ lastRun'.content = lastRun.content
    /\ ~lastRun.codeChanged

SameResultAndOutput ==
    /\ lastRun'.validation = lastRun.validation
    /\ lastRun'.output = lastRun.output

CurrentEntry == [documentId |-> selectedDocumentId, content |-> code]

C12_NoEntryAfterSave ==
    untouchedSinceSave => autosave = Null

\* C13: while the browser is offline no create or update request is sent,
\* by the Save button or by Ctrl/Cmd+S: every request in flight was sent
\* with isOnline true.
C13_NoRequestWhileOffline ==
    \A i \in 1..Len(saveCalls) : saveCalls[i].isOnline

\* C14: handleSelectDocument never replaces editor content that differs
\* from the selected document's saved content unless the user accepted the
\* discard prompt for that content, text typed while the document is being
\* fetched included.
C14_DiscardOnlyWithConsent ==
    [][(/\ Len(selectCalls') < Len(selectCalls)
        /\ hasUnsavedChanges
        /\ code' # code)
           => \E i \in 1..Len(selectCalls) :
                  /\ selectCalls' = RemoveAt(selectCalls, i)
                  /\ selectCalls[i].consented = [content |-> code]]_vars

(***************************************************************************)
(* The tokenizer.  The claims speak of string literals, comments and       *)
(* words; Regions gives each character of a line its place by the stated   *)
(* lexical rules: a string literal runs from a double quote to the first   *)
(* unescaped double quote, a backslash escapes the character after it, a   *)
(* comment runs from // or # outside a literal to the end of the line.     *)
(***************************************************************************)
RECURSIVE Regions(_, _, _)
Regions(line, pos, inString) ==
    IF pos > Len(line) THEN <<>>
    ELSE LET c == CharAt(line, pos)
         IN  IF inString
             THEN IF c = "\""
                  THEN <<[region |-> "string", role |-> "close"]>>
                           \o Regions(line, pos + 1, FALSE)
                  ELSE IF c = "\\" /\ pos < Len(line)
                  THEN <<[region |-> "string", role |-> "escape"],
                         [region |-> "string", role |-> "escaped"]>>
                           \o Regions(line, pos + 2, TRUE)
                  ELSE <<[region |-> "string", role |-> "body"]>>
                           \o Regions(line, pos + 1, TRUE)
             ELSE IF c = "\""
                  THEN <<[region |-> "string", role |-> "open"]>>
                           \o Regions(line, pos + 1, TRUE)
                  ELSE IF c = "#" \/ (c = "/" /\ pos < Len(line) /\ CharAt(line, pos + 1) = "/")
                  THEN [k \in 1..(Len(line) - pos + 1) |->
                           [region |-> "comment", role |-> "body"]]
                  ELSE <<[region |-> "code", role |-> "body"]>>
                           \o Regions(line, pos + 1, FALSE)

\* the line ends inside a string literal
Unterminated(line) ==
    /\ Len(line) > 0
    /\ LET last == Regions(line, 1, FALSE)[Len(line)]
       IN  last.region = "string" /\ last.role # "close"

\* the tokens of a line, character by character: the token the character is
\* in, whether it is its first character, and the tokenizer state after it
RECURSIVE TokenChars(_)
TokenChars(tokens) ==
    IF tokens = <<>> THEN <<>>
    ELSE LET t == Head(tokens)
         IN  [k \in 1..Len(t.text) |->
                 [token |-> t.token, text |-> t.text, first |-> (k = 1),
                  after |-> IF k = Len(t.text) THEN t.next ELSE t.state]]
                 \o TokenChars(Tail(tokens))

Tokenized == lexTokens # Null
LineCount == Len(lexSource)
LineTokens(i) == lexTokens.lines[i].tokens
LineChars(i) == TokenChars(lexTokens.lines[i].tokens)
LineRegions(i) == Regions(lexSource[i], 1, FALSE)

\* C15: a line with a string literal that is unterminated at its end yields
\* an invalid-string token, and every line after it is tokenized from root.
C15_UnterminatedStringIsInvalid ==
    Tokenized =>
        \A i \in 1..LineCount :
            (lexTokens.lines[i].start = "root" /\ Unterminated(lexSource[i])) =>
                /\ \E k \in 1..Len(LineTokens(i)) : LineTokens(i)[k].token = "string.invalid"
                /\ \A j \in (i + 1)..LineCount : lexTokens.lines[j].start = "root"

\* C16: a backslash-escaped character, an escaped double quote included, is
\* part of the string literal and does not end it: in a line whose literals
\* are all terminated the tokenizer is inside the string after every
\* character of a literal but its closing quote, and outside after that.
C16_EscapedQuoteStaysInLiteral ==
    Tokenized =>
        \A i \in 1..LineCount :
            (lexTokens.lines[i].start = "root" /\ ~Unterminated(lexSource[i])) =>
                \A p \in 1..Len(lexSource[i]) :
                    LineRegions(i)[p].region = "string" =>
                        LineChars(i)[p].after =
                            IF LineRegions(i)[p].role = "close" THEN "root" ELSE "string"

\* the words of a line: the runs of \w characters that start at p, not after
\* another \w character and not with a digit
WordAt(line, p) ==
    IF /\ CharAt(line, p) \in WordChars \ Digits
       /\ (p = 1 \/ CharAt(line, p - 1) \notin WordChars)
    THEN SubSeq(line, p, p + RunLength(line, p, WordChars) - 1)
    ELSE ""

\* the characters p .. p + Len(text) - 1 of line i are one token of the kind
OneToken(i, p, text, kind) ==
    /\ LineChars(i)[p].first
    /\ LineChars(i)[p].token = kind
    /\ LineChars(i)[p].text = text

\* C17: each operator symbol and each of AND, OR, NOT, MOD, DIV outside a
\* string and a comment is an operator token.
C17_OperatorsAreOperatorTokens ==
    Tokenized =>
        \A p \in 1..Len(lexSource[1]) :
            LineRegions(1)[p].region = "code" =>
                /\ CharAt(lexSource[1], p) \in operators =>
                       OneToken(1, p, CharAt(lexSource[1], p), "operator")
                /\ WordAt(lexSource[1], p) \in operators =>
                       OneToken(1, p, WordAt(lexSource[1], p), "operator")

\* the kinds of the tokens the characters p .. p + n - 1 of line i are in
KindsOf(i, p, n) == { LineChars(i)[q].token : q \in p..(p + n - 1) }

\* the table a kind of token is matched against
TableOf(kind) ==
    IF kind = "keyword" THEN keywords
    ELSE IF kind = "type" THEN types
    ELSE constants

\* C18: a word is classified as keyword, type or constant exactly when the
\* whole word equals an entry of the table, in upper case; and a
\* lowercase-led word of letters, digits and underscores is one identifier
\* token (the token Monarch names 'variable').
C18_WholeWordsAgainstTables ==
    Tokenized =>
        \A p \in 1..Len(lexSource[1]) :
            LET word == WordAt(lexSource[1], p)
            IN  (LineRegions(1)[p].region = "code" /\ word # "") =>
                    /\ \A kind \in {"keyword", "type", "constant"} :
                           kind \in KindsOf(1, p, Len(word)) <=> word \in TableOf(kind)
                    /\ CharAt(word, 1) \in LowerCase => OneToken(1, p, word, "variable")

\* C19: outside a string literal the text from // or # to the end of the
\* line is comment and nothing else, and // or # inside a string literal
\* does not start a comment.
C19_CommentsOnlyOutsideStrings ==
    Tokenized =>
        \A i \in 1..LineCount :
            \A p \in 1..Len(lexSource[i]) :
                /\ LineRegions(i)[p].region = "comment" => LineChars(i)[p].token = "comment"
                /\ LineRegions(i)[p].region = "string" => LineChars(i)[p].token # "comment"

\* C20: a Run on a program with a non-terminating loop is stopped by the
\* execution limit and reported as a timeout runtime error: once the backend
\* has accepted the program, the finished run shows that error.
C20_LoopReportedAsTimeout ==
    (/\ lastRun # Null
     /\ lastRun.content = InfiniteLoopProgram
     /\ SaidValid(lastRun.validation))
        => \E k \in 1..Len(lastRun.output) :
               Includes(lastRun.output[k], "Runtime Error - Execution timed out")

\* the terminal lines that report one event each (`Line <N>: ...`); the
\* headings and blank lines handleRun adds around them are not counted
EventLines(lines) == { k \in 1..Len(lines) : StartsWith(lines[k], "Line ") }

\* C21: the number of output lines held for the terminal never exceeds the
\* configured maximum: the terminal of a finished run holds at most
\* MaxOutputEvents event lines, the lines past the cap having been dropped.
C21_TerminalLinesCapped ==
    lastRun # Null => Cardinality(EventLines(lastRun.output)) <= MaxOutputEvents

\* C22: in every reachable state selectedDocumentId is the empty string or
\* the id of a document of the documents list.
C22_SelectionInList ==
    selectedDocumentId = "" \/ selectedDocumentId \in DocumentIds

\* the requests in flight that create the same local document on the server
CreatesOf(documentId) ==
    { i \in 1..Len(saveCalls) :
        /\ saveCalls[i].request = "create"
        /\ saveCalls[i].selectedDocument # Null
        /\ saveCalls[i].selectedDocument.id = documentId }

\* C23: while a save request of handleSaveDocument is in flight, saveState is
\* 'saving' and the Save button is disabled; at most one save request is in
\* flight; and no local document has two create requests in flight.
C23_OneSaveInFlight ==
    /\ Len(saveCalls) > 0 => saveState = "saving" /\ SaveButtonDisabled
    /\ Len(saveCalls) <= 1
    /\ \A i \in 1..Len(documents) : Cardinality(CreatesOf(documents[i].id)) <= 1
====
